---- MODULE Spec2Model ----
(***************************************************************************)
(* A model of logger.py: the two formatters, the AdvancedLogger facade     *)
(* with its handlers and mutators, and the four call wrappers              *)
(* (log_funcall, AdvancedLogger.log_funcall, log_method_call,              *)
(* MethodLogger).                                                          *)
(*                                                                         *)
(* Text is modelled as a sequence of tokens (strings).  The caller field   *)
(* is modelled character by character, because ljust and the slice work   *)
(* on characters; every other piece of a line is one token.                *)
(***************************************************************************)
EXTENDS Integers, Sequences, FiniteSets, TLC

VARIABLES
    log_file,       \* AdvancedLogger.log_file ("None" when not set)
    put_func_name,  \* AdvancedLogger.put_func_name
    max_width,      \* AdvancedLogger.max_width
    custom_str,     \* AdvancedLogger.custom_str
    time_format,    \* AdvancedLogger.time_format ("None" when not set)
    colored_level,  \* AdvancedLogger.colored_level, as stored
    colored_log,    \* AdvancedLogger.colored_log, as stored
    handlers,       \* logging.Logger.handlers: the sequence of attached handlers
    stdout,         \* the lines written to standard output, oldest first
    files,          \* path -> the lines appended to that file, oldest first
    ops,            \* history: the operations called on the logger since construction
    wrapper,        \* the decorated callable: variant and the options it closed over
    call,           \* the last invocation of the wrapper: inputs, event trace, outcome
    registry        \* logging.getLogger's loggers: name -> the handlers attached to it

loggerVars == <<log_file, put_func_name, max_width, custom_str, time_format,
                colored_level, colored_log, handlers, stdout, files, ops, registry>>
wrapVars == <<wrapper, call, registry>>
vars == <<log_file, put_func_name, max_width, custom_str, time_format,
          colored_level, colored_log, handlers, stdout, files, ops, wrapper, call, registry>>

----------------------------------------------------------------------------
(* Bounds of the model *)

\* the number of operations called on a logger after its construction
MaxOps == 3

(* Input domains *)
None == "None"
Paths == {"test1.log", "test2.log"}
Widths == {3, 20}
CustomStrs == {"", "TEST1"}
TimeFormats == {None, "%H:%M:%S"}

----------------------------------------------------------------------------
(* logging's numeric levels, used as keys of LOG_LEVELS *)
DEBUG == 10
INFO == 20
WARNING == 30
ERROR == 40
CRITICAL == 50
Levels == {DEBUG, INFO, WARNING, ERROR, CRITICAL}

\* LOG_LEVELS.get(levelno, "UNK")
LOG_LEVELS(levelno) ==
    CASE levelno = DEBUG -> "DBG"
      [] levelno = INFO -> "INF"
      [] levelno = WARNING -> "WRN"
      [] levelno = ERROR -> "ERR"
      [] levelno = CRITICAL -> "CRT"
      [] OTHER -> "UNK"

RESET == "\\033[0m"

\* COLORS.get(level, COLORS["RESET"])
COLORS(level) ==
    CASE level = "DBG" -> "\\033[90m"
      [] level = "INF" -> "\\033[92m"
      [] level = "WRN" -> "\\033[93m"
      [] level = "ERR" -> "\\033[91m"
      [] level = "CRT" -> "\\033[91m"
      [] OTHER -> RESET

MAX_FIELD_WIDTH == 20

----------------------------------------------------------------------------
(* String helpers, on sequences of characters *)

Min(a, b) == IF a < b THEN a ELSE b

\* str.ljust(width): pad with spaces on the right up to width, never cut
ljust(s, width) ==
    IF Len(s) >= width THEN s
    ELSE s \o [i \in 1..(width - Len(s)) |-> " "]

\* mutant of slice: nothing is cut
slice_noCut(s, width) == s

\* s[:width] for width >= 0
slice(s, width) == SubSeq(s, 1, Min(width, Len(s)))

----------------------------------------------------------------------------
(* Formatters.  A formatter is a record of its class and attributes; a     *)
(* FileFormatter has no colouring attributes, written here as FALSE.       *)

\* mutant of ConsoleFormatter: the two coupling lines of __init__ are missing
ConsoleFormatter_unnormalized(pfn, mw, cs, tf, clevel, clog) ==
    [cls |-> "ConsoleFormatter", put_func_name |-> pfn, max_width |-> mw,
     custom_str |-> cs, time_format |-> tf,
     colored_level |-> clevel, colored_log |-> clog]

\* ConsoleFormatter.__init__
ConsoleFormatter(pfn, mw, cs, tf, clevel, clog) ==
    LET level1 == IF clog THEN TRUE ELSE clevel
        log1 == IF ~level1 THEN FALSE ELSE clog
    IN [cls |-> "ConsoleFormatter", put_func_name |-> pfn, max_width |-> mw,
        custom_str |-> cs, time_format |-> tf,
        colored_level |-> level1, colored_log |-> log1]

\* FileFormatter.__init__
FileFormatter(pfn, mw, cs, tf) ==
    [cls |-> "FileFormatter", put_func_name |-> pfn, max_width |-> mw,
     custom_str |-> cs, time_format |-> tf,
     colored_level |-> FALSE, colored_log |-> FALSE]

\* formatTime(record, time_format) or formatTime(record): the clock is left out,
\* the token tells which pattern rendered the time
Timestamp(f) ==
    IF f.time_format # None /\ Len(f.time_format) > 0
    THEN "strftime(" \o f.time_format \o ")"
    ELSE "asctime"

\* "|{}.{}".format(record.module, record.funcName).ljust(max_width)[:max_width]
ModuleFunction(f, record) ==
    IF f.put_func_name
    THEN slice(ljust(<<"|">> \o record.module \o <<".">> \o record.funcName,
                     f.max_width), f.max_width)
    ELSE <<>>

\* cs = "|{}".format(custom_str) if len(custom_str) > 0 else ""
CustomField(f) ==
    IF Len(f.custom_str) > 0 THEN <<"|", f.custom_str>> ELSE <<>>

\* "\n{}".format(traceback.format_exc()) if record.exc_info else "", for ERROR and above
TraceField(record) ==
    IF record.levelno >= ERROR /\ record.exc_info
    THEN <<"\n", "traceback">>
    ELSE <<>>

\* mutant of ConsoleFormat: the level token is coloured without looking at
\* colored_level
ConsoleFormat_levelAlwaysColoured(f, record) ==
    LET level == LOG_LEVELS(record.levelno)
        color == COLORS(level)
        level_str ==
            IF f.colored_log /\ level # "INF"
            THEN <<level>>
            ELSE <<color, level, RESET>>
        log_msg == <<"[", Timestamp(f)>> \o ModuleFunction(f, record)
                   \o CustomField(f) \o <<"|">> \o level_str
                   \o <<"] ", record.msg>> \o TraceField(record)
    IN IF f.colored_log /\ level # "INF"
       THEN <<color>> \o log_msg \o <<RESET>>
       ELSE log_msg

\* mutant of ConsoleFormat: the level token is coloured also inside a line that
\* is coloured as a whole
ConsoleFormat_nested(f, record) ==
    LET level == LOG_LEVELS(record.levelno)
        color == COLORS(level)
        level_str ==
            IF f.colored_level
            THEN <<color, level, RESET>>
            ELSE <<level>>
        log_msg == <<"[", Timestamp(f)>> \o ModuleFunction(f, record)
                   \o CustomField(f) \o <<"|">> \o level_str
                   \o <<"] ", record.msg>> \o TraceField(record)
    IN IF f.colored_log /\ level # "INF"
       THEN <<color>> \o log_msg \o <<RESET>>
       ELSE log_msg

\* ConsoleFormatter.format
ConsoleFormat(f, record) ==
    LET level == LOG_LEVELS(record.levelno)
        color == COLORS(level)
        level_str ==
            IF f.colored_level
            THEN IF f.colored_log /\ level # "INF"
                 THEN <<level>>
                 ELSE <<color, level, RESET>>
            ELSE <<level>>
        log_msg == <<"[", Timestamp(f)>> \o ModuleFunction(f, record)
                   \o CustomField(f) \o <<"|">> \o level_str
                   \o <<"] ", record.msg>> \o TraceField(record)
    IN IF f.colored_log /\ level # "INF"
       THEN <<color>> \o log_msg \o <<RESET>>
       ELSE log_msg

\* FileFormatter.format
FileFormat(f, record) ==
    LET level == LOG_LEVELS(record.levelno)
    IN <<"[", Timestamp(f)>> \o ModuleFunction(f, record)
       \o CustomField(f) \o <<"|", level>>
       \o <<"] ", record.msg>> \o TraceField(record)

\* handler.format(record): dispatch on the formatter's class
Format(f, record) ==
    IF f.cls = "ConsoleFormatter" THEN ConsoleFormat(f, record)
    ELSE FileFormat(f, record)

----------------------------------------------------------------------------
(* Handlers.  logging.FileHandler is a subclass of logging.StreamHandler,  *)
(* so isinstance(h, logging.StreamHandler) holds for both kinds.           *)

ClassBases(cls) ==
    IF cls = "FileHandler" THEN {"FileHandler", "StreamHandler"}
    ELSE {"StreamHandler"}

\* isinstance(h, logging.<cls>)
IsInstance(h, cls) == cls \in ClassBases(h.cls)

\* logging.StreamHandler(sys.stdout) with its formatter set
StreamHandler(f) ==
    [cls |-> "StreamHandler", baseFilename |-> None, formatter |-> f]

\* logging.FileHandler(log_file, mode="a", encoding="utf-8") with its formatter set
FileHandler(path, f) ==
    [cls |-> "FileHandler", baseFilename |-> path, formatter |-> f]

\* the destination a handler's emit writes to: its file, or standard output
Stream(h) == IF h.cls = "FileHandler" THEN h.baseFilename ELSE "stdout"

\* Logger.callHandlers: the lines the handlers of hs write to dest for one record
Emitted(hs, dest, record) ==
    LET to == SelectSeq(hs, LAMBDA h : Stream(h) = dest)
    IN [i \in 1..Len(to) |-> Format(to[i].formatter, record)]

\* mutant of ResetFormatter: only a handler that is exactly a StreamHandler gets
\* a new formatter, a FileHandler keeps the one it has
ResetFormatter_consoleOnly(h, pfn, mw, cs, tf, clevel, clog) ==
    IF h.cls = "StreamHandler"
    THEN [h EXCEPT !.formatter = ConsoleFormatter(pfn, mw, cs, tf, clevel, clog)]
    ELSE h

\* AdvancedLogger.reset_formatters, on one handler
ResetFormatter(h, pfn, mw, cs, tf, clevel, clog) ==
    IF IsInstance(h, "StreamHandler")
    THEN [h EXCEPT !.formatter = ConsoleFormatter(pfn, mw, cs, tf, clevel, clog)]
    ELSE IF IsInstance(h, "FileHandler")
    THEN [h EXCEPT !.formatter = FileFormatter(pfn, mw, cs, tf)]
    ELSE h

\* AdvancedLogger.reset_formatters: for h in self.handlers
reset_formatters(hs, pfn, mw, cs, tf, clevel, clog) ==
    [i \in 1..Len(hs) |-> ResetFormatter(hs[i], pfn, mw, cs, tf, clevel, clog)]

\* the handlers AdvancedLogger.__init__ attaches
InitHandlers(lf, pfn, mw, cs, tf, clevel, clog) ==
    <<StreamHandler(ConsoleFormatter(pfn, mw, cs, tf, clevel, clog))>>
    \o (IF lf # None
        THEN <<FileHandler(lf, FileFormatter(pfn, mw, cs, tf))>>
        ELSE <<>>)

----------------------------------------------------------------------------
(* logging.getLogger(name) keeps one logger per name.  Importing the module  *)
(* evaluates log_funcall's default argument get_logger(__name__), so the     *)
(* logger named after the module has its console handler from the start.     *)

ModuleName == "logger"
Names == {ModuleName, "app"}

\* mutant of GetLoggerHandlers: the console handler is added without looking
\* for an existing one
GetLoggerHandlers_alwaysAddsConsole(hs, lf, pfn, mw, cs, tf, clevel, clog) ==
    LET console_handler == StreamHandler(ConsoleFormatter(pfn, mw, cs, tf, clevel, clog))
        with_console == Append(hs, console_handler)
    IN IF lf # None /\ Len(lf) > 0
       THEN LET file_handler == FileHandler(lf, FileFormatter(pfn, mw, cs, tf))
            IN IF ~\E i \in DOMAIN with_console : IsInstance(with_console[i], "FileHandler")
               THEN Append(with_console, file_handler)
               ELSE with_console
       ELSE with_console

\* get_logger: the handlers of the named logger after the call, given those before
GetLoggerHandlers(hs, lf, pfn, mw, cs, tf, clevel, clog) ==
    LET console_handler == StreamHandler(ConsoleFormatter(pfn, mw, cs, tf, clevel, clog))
        with_console ==
            IF ~\E i \in DOMAIN hs : IsInstance(hs[i], "StreamHandler")
            THEN Append(hs, console_handler)
            ELSE hs
    IN IF lf # None /\ Len(lf) > 0
       THEN LET file_handler == FileHandler(lf, FileFormatter(pfn, mw, cs, tf))
            IN IF ~\E i \in DOMAIN with_console : IsInstance(with_console[i], "FileHandler")
               THEN Append(with_console, file_handler)
               ELSE with_console
       ELSE with_console

\* the loggers after the module is imported: get_logger(__name__) has run
ImportedRegistry ==
    [n \in Names |->
        IF n = ModuleName
        THEN GetLoggerHandlers(<<>>, None, TRUE, MAX_FIELD_WIDTH, "", None, TRUE, FALSE)
        ELSE <<>>]

----------------------------------------------------------------------------
(* The wrapper world starts undecorated *)
NoWrapper ==
    [variant |-> "none", logger |-> None, default |-> None,
     skip |-> FALSE, verbose |-> FALSE]
NoCall ==
    [attr |-> None, behaviour |-> [kind |-> "none", val |-> None],
     trace |-> <<>>, outcome |-> [kind |-> "none", val |-> None]]

----------------------------------------------------------------------------
(* AdvancedLogger *)

\* AdvancedLogger.__init__: the state after construction, without a log file or
\* with test1.log (set_file reaches test2.log), for every choice of
\* put_func_name, colored_level and colored_log; max_width, custom_str and
\* time_format take the constructor's default arguments (the setters reach
\* their other values)
Init ==
    /\ log_file \in {None, "test1.log"}
    /\ put_func_name \in BOOLEAN
    /\ max_width = MAX_FIELD_WIDTH
    /\ custom_str = ""
    /\ time_format = None
    /\ colored_level \in BOOLEAN
    /\ colored_log \in BOOLEAN
    /\ handlers = InitHandlers(log_file, put_func_name, max_width, custom_str,
                               time_format, colored_level, colored_log)
    /\ stdout = <<>>
    /\ files = [p \in Paths |-> <<>>]
    /\ ops = <<>>
    /\ wrapper = NoWrapper
    /\ call = NoCall
    /\ registry = ImportedRegistry

\* mutant of set_file: the existing FileHandler is not removed first
set_file_keepsOld(path) ==
    /\ Len(ops) < MaxOps
    /\ handlers' = handlers
                   \o <<FileHandler(path, FileFormatter(put_func_name, max_width,
                                                        custom_str, time_format))>>
    /\ log_file' = path
    /\ ops' = Append(ops, "set_file")
    /\ UNCHANGED <<put_func_name, max_width, custom_str, time_format,
                   colored_level, colored_log, stdout, files, wrapper, call, registry>>

\* AdvancedLogger.set_file
set_file(path) ==
    /\ Len(ops) < MaxOps
    /\ handlers' = SelectSeq(handlers, LAMBDA h : ~IsInstance(h, "FileHandler"))
                   \o <<FileHandler(path, FileFormatter(put_func_name, max_width,
                                                        custom_str, time_format))>>
    /\ log_file' = path
    /\ ops' = Append(ops, "set_file")
    /\ UNCHANGED <<put_func_name, max_width, custom_str, time_format,
                   colored_level, colored_log, stdout, files, wrapper, call, registry>>

\* AdvancedLogger.set_custom_str
set_custom_str(cs) ==
    /\ Len(ops) < MaxOps
    /\ custom_str' = cs
    /\ handlers' = reset_formatters(handlers, put_func_name, max_width, cs,
                                    time_format, colored_level, colored_log)
    /\ ops' = Append(ops, "set_custom_str")
    /\ UNCHANGED <<log_file, put_func_name, max_width, time_format,
                   colored_level, colored_log, stdout, files, wrapper, call, registry>>

\* AdvancedLogger.set_put_func_name
set_put_func_name(pfn) ==
    /\ Len(ops) < MaxOps
    /\ put_func_name' = pfn
    /\ handlers' = reset_formatters(handlers, pfn, max_width, custom_str,
                                    time_format, colored_level, colored_log)
    /\ ops' = Append(ops, "set_put_func_name")
    /\ UNCHANGED <<log_file, max_width, custom_str, time_format,
                   colored_level, colored_log, stdout, files, wrapper, call, registry>>

\* AdvancedLogger.set_max_width
set_max_width(mw) ==
    /\ Len(ops) < MaxOps
    /\ max_width' = mw
    /\ handlers' = reset_formatters(handlers, put_func_name, mw, custom_str,
                                    time_format, colored_level, colored_log)
    /\ ops' = Append(ops, "set_max_width")
    /\ UNCHANGED <<log_file, put_func_name, custom_str, time_format,
                   colored_level, colored_log, stdout, files, wrapper, call, registry>>

\* AdvancedLogger.set_time_format
set_time_format(tf) ==
    /\ Len(ops) < MaxOps
    /\ time_format' = tf
    /\ handlers' = reset_formatters(handlers, put_func_name, max_width, custom_str,
                                    tf, colored_level, colored_log)
    /\ ops' = Append(ops, "set_time_format")
    /\ UNCHANGED <<log_file, put_func_name, max_width, custom_str,
                   colored_level, colored_log, stdout, files, wrapper, call, registry>>

\* AdvancedLogger.set_coloring
set_coloring(clevel, clog) ==
    /\ Len(ops) < MaxOps
    /\ colored_level' = clevel
    /\ colored_log' = clog
    /\ handlers' = reset_formatters(handlers, put_func_name, max_width, custom_str,
                                    time_format, clevel, clog)
    /\ ops' = Append(ops, "set_coloring")
    /\ UNCHANGED <<log_file, put_func_name, max_width, custom_str, time_format,
                   stdout, files, wrapper, call, registry>>

\* AdvancedLogger.reset_defaults
reset_defaults ==
    /\ Len(ops) < MaxOps
    /\ put_func_name' = TRUE
    /\ max_width' = MAX_FIELD_WIDTH
    /\ custom_str' = ""
    /\ time_format' = None
    /\ colored_level' = TRUE
    /\ colored_log' = FALSE
    /\ handlers' = reset_formatters(handlers, TRUE, MAX_FIELD_WIDTH, "", None,
                                    TRUE, FALSE)
    /\ ops' = Append(ops, "reset_defaults")
    /\ UNCHANGED <<log_file, stdout, files, wrapper, call, registry>>

\* the caller of the logging methods, as record.module and record.funcName
CallerModule == <<"a", "p", "p">>
CallerFunc == <<"m", "a", "i", "n">>

\* the LogRecord of one logging call
LogRecord(levelno, exc_info) ==
    [levelno |-> levelno, module |-> CallerModule, funcName |-> CallerFunc,
     msg |-> "message", exc_info |-> exc_info]

\* Logger.debug/info/warning/error/critical: the record goes to every handler,
\* each writes the line its formatter renders to its own stream
Log(levelno, exc_info) ==
    /\ Len(ops) < MaxOps
    /\ LET record == LogRecord(levelno, exc_info)
       IN /\ stdout' = stdout \o Emitted(handlers, "stdout", record)
          /\ files' = [p \in Paths |-> files[p] \o Emitted(handlers, p, record)]
    /\ ops' = Append(ops, "log")
    /\ UNCHANGED <<log_file, put_func_name, max_width, custom_str, time_format,
                   colored_level, colored_log, handlers, wrapper, call, registry>>

Next ==
    \/ \E path \in Paths : set_file(path)
    \/ \E cs \in CustomStrs : set_custom_str(cs)
    \/ \E pfn \in BOOLEAN : set_put_func_name(pfn)
    \/ \E mw \in Widths : set_max_width(mw)
    \/ \E tf \in TimeFormats : set_time_format(tf)
    \/ \E clevel \in BOOLEAN, clog \in BOOLEAN : set_coloring(clevel, clog)
    \/ reset_defaults
    \/ \E levelno \in Levels, exc_info \in BOOLEAN : Log(levelno, exc_info)

Spec == Init /\ [][Next]_vars

----------------------------------------------------------------------------
(* The call wrappers.  One invocation of a wrapper is modelled by the      *)
(* trace of what it does, in order (the records it hands to a logger and   *)
(* the invocations of the wrapped callable), and by its outcome (a value   *)
(* returned, or an exception raised to the caller).                        *)

\* the loggers a wrapper can meet: one given explicitly, one held by the receiver
ExplicitLogger == "explicit_logger"
AttrLogger == "obj.logger"
\* what the receiver holds under loggerVarName
Attrs == {"absent", None, AttrLogger}
Defaults == {None, "default value"}
\* exceptions the wrapped callable raises: an Exception, and a BaseException
\* that is no Exception
ZeroDivisionError == "ZeroDivisionError"
KeyboardInterrupt == "KeyboardInterrupt"
\* raised by None.info / None.error / None.warning
AttributeError == "AttributeError"
\* isinstance(e, Exception): what "except Exception" catches
IsException(e) == e \in {ZeroDivisionError, AttributeError}

Return(v) == [kind |-> "return", val |-> v]
Raise(e) == [kind |-> "raise", val |-> e]
\* what the wrapped callable does when invoked
Behaviours == {Return("result"), Raise(ZeroDivisionError), Raise(KeyboardInterrupt)}

\* one record handed to a logger
LogEv(logger, level, msg, exc) ==
    [ev |-> "log", logger |-> logger, level |-> level, msg |-> msg, exc |-> exc]
\* one invocation of the wrapped callable
InvokeEv ==
    [ev |-> "invoke", logger |-> None, level |-> None, msg |-> None, exc |-> None]

\* getattr(obj, loggerVarName, None)
Getattr(attr) == IF attr = "absent" THEN None ELSE attr

\* mutant of TryLogged: "Finished" is logged before the callable is invoked
TryLogged_finishedEarly(logger, verbose, b) ==
    IF verbose /\ logger = None
    THEN [trace |-> <<>>, outcome |-> Raise(AttributeError)]
    ELSE LET calling == IF verbose
                        THEN <<LogEv(logger, "INFO", "Calling", None)>>
                        ELSE <<>>
             finished == IF verbose
                         THEN <<LogEv(logger, "INFO", "Finished", None)>>
                         ELSE <<>>
         IN [trace |-> calling \o finished \o <<InvokeEv>>, outcome |-> b]

\* the try block shared in shape by log_funcall and log_method_call:
\* "Calling" if verbose, the call, "Finished" if verbose, all inside the try
TryLogged(logger, verbose, b) ==
    IF verbose /\ logger = None
    THEN [trace |-> <<>>, outcome |-> Raise(AttributeError)]
    ELSE LET calling == IF verbose
                        THEN <<LogEv(logger, "INFO", "Calling", None)>>
                        ELSE <<>>
             finished == IF verbose
                         THEN <<LogEv(logger, "INFO", "Finished", None)>>
                         ELSE <<>>
         IN IF b.kind = "return"
            THEN [trace |-> calling \o <<InvokeEv>> \o finished, outcome |-> b]
            ELSE [trace |-> calling \o <<InvokeEv>>, outcome |-> b]

\* mutant of ExceptLogged: the WARNING of the skip branch is missing
ExceptLogged_noWarning(logger, default, skip, t) ==
    IF t.outcome.kind = "raise" /\ IsException(t.outcome.val)
    THEN IF logger = None
         THEN [trace |-> t.trace, outcome |-> Raise(AttributeError)]
         ELSE LET e == t.outcome.val
                  logged == t.trace \o <<LogEv(logger, "ERROR", "Error in", e)>>
              IN IF skip
                 THEN [trace |-> logged, outcome |-> Return(default)]
                 ELSE [trace |-> logged, outcome |-> Raise(e)]
    ELSE t

\* the except block shared in shape by log_funcall and log_method_call:
\* logger.error, then logger.warning and the default if skip, else raise e
ExceptLogged(logger, default, skip, t) ==
    IF t.outcome.kind = "raise" /\ IsException(t.outcome.val)
    THEN IF logger = None
         THEN [trace |-> t.trace, outcome |-> Raise(AttributeError)]
         ELSE LET e == t.outcome.val
                  logged == t.trace \o <<LogEv(logger, "ERROR", "Error in", e)>>
              IN IF skip
                 THEN [trace |-> logged
                                 \o <<LogEv(logger, "WARNING", "Skipping", None)>>,
                       outcome |-> Return(default)]
                 ELSE [trace |-> logged, outcome |-> Raise(e)]
    ELSE t

\* log_funcall.decorator.wrapper (module level)
log_funcall_wrapper(logger, default, skip, verbose, b) ==
    ExceptLogged(logger, default, skip, TryLogged(logger, verbose, b))

\* log_method_call.decorator.wrapper
log_method_call_wrapper(attr, default, skip, verbose, b) ==
    LET logger == Getattr(attr)
    IN ExceptLogged(logger, default, skip, TryLogged(logger, verbose, b))

\* mutant of AdvancedLogger_log_funcall_wrapper: the except block raises a new
\* error in place of the caught one
AdvancedLogger_log_funcall_wrapper_wrapsError(self, default, skip, verbose, b) ==
    LET calling == IF verbose
                   THEN <<LogEv(self, "INFO", "Calling", None)>>
                   ELSE <<>>
        finished == IF verbose
                    THEN <<LogEv(self, "INFO", "Finished", None)>>
                    ELSE <<>>
    IN IF b.kind = "return"
       THEN [trace |-> calling \o <<InvokeEv>> \o finished, outcome |-> b]
       ELSE IF IsException(b.val)
       THEN LET logged == calling \o <<InvokeEv>>
                          \o <<LogEv(self, "ERROR", "Error in", b.val)>>
            IN IF skip
               THEN [trace |-> logged \o <<LogEv(self, "WARNING", "Skipping", None)>>,
                     outcome |-> Return(default)]
               ELSE [trace |-> logged, outcome |-> Raise("RuntimeError")]
       ELSE [trace |-> calling \o <<InvokeEv>>, outcome |-> b]

\* AdvancedLogger.log_funcall.decorator.wrapper: "Calling" is logged before the try
AdvancedLogger_log_funcall_wrapper(self, default, skip, verbose, b) ==
    LET calling == IF verbose
                   THEN <<LogEv(self, "INFO", "Calling", None)>>
                   ELSE <<>>
        finished == IF verbose
                    THEN <<LogEv(self, "INFO", "Finished", None)>>
                    ELSE <<>>
    IN IF b.kind = "return"
       THEN [trace |-> calling \o <<InvokeEv>> \o finished, outcome |-> b]
       ELSE IF IsException(b.val)
       THEN LET logged == calling \o <<InvokeEv>>
                          \o <<LogEv(self, "ERROR", "Error in", b.val)>>
            IN IF skip
               THEN [trace |-> logged \o <<LogEv(self, "WARNING", "Skipping", None)>>,
                     outcome |-> Return(default)]
               ELSE [trace |-> logged, outcome |-> Raise(b.val)]
       ELSE [trace |-> calling \o <<InvokeEv>>, outcome |-> b]

\* mutant of MethodLogger_wrapped: the except block logs without testing the
\* logger, as log_method_call does
MethodLogger_wrapped_unguarded(_logger, attr, default, skip, verbose, b) ==
    LET logger == IF _logger # None THEN _logger ELSE Getattr(attr)
        calling == IF verbose /\ logger # None
                   THEN <<LogEv(logger, "INFO", "Calling", None)>>
                   ELSE <<>>
        finished == IF verbose /\ logger # None
                    THEN <<LogEv(logger, "INFO", "Finished", None)>>
                    ELSE <<>>
    IN IF b.kind = "return"
       THEN [trace |-> calling \o <<InvokeEv>> \o finished, outcome |-> b]
       ELSE IF IsException(b.val)
       THEN IF logger # None
            THEN LET logged == calling \o <<InvokeEv>>
                               \o <<LogEv(logger, "ERROR", "Error in", b.val)>>
                 IN IF skip
                    THEN [trace |-> logged
                                    \o <<LogEv(logger, "WARNING", "Skipping", None)>>,
                          outcome |-> Return(default)]
                    ELSE [trace |-> logged, outcome |-> Raise(b.val)]
            ELSE [trace |-> calling \o <<InvokeEv>>, outcome |-> Raise(AttributeError)]
       ELSE [trace |-> calling \o <<InvokeEv>>, outcome |-> b]

\* MethodLogger.__call__.wrapped
MethodLogger_wrapped(_logger, attr, default, skip, verbose, b) ==
    LET logger == IF _logger # None THEN _logger ELSE Getattr(attr)
        calling == IF verbose /\ logger # None
                   THEN <<LogEv(logger, "INFO", "Calling", None)>>
                   ELSE <<>>
        finished == IF verbose /\ logger # None
                    THEN <<LogEv(logger, "INFO", "Finished", None)>>
                    ELSE <<>>
    IN IF b.kind = "return"
       THEN [trace |-> calling \o <<InvokeEv>> \o finished, outcome |-> b]
       ELSE IF IsException(b.val)
       THEN IF logger # None
            THEN LET logged == calling \o <<InvokeEv>>
                               \o <<LogEv(logger, "ERROR", "Error in", b.val)>>
                 IN IF skip
                    THEN [trace |-> logged
                                    \o <<LogEv(logger, "WARNING", "Skipping", None)>>,
                          outcome |-> Return(default)]
                    ELSE [trace |-> logged, outcome |-> Raise(b.val)]
            ELSE IF skip
                 THEN [trace |-> calling \o <<InvokeEv>>, outcome |-> Return(default)]
                 ELSE [trace |-> calling \o <<InvokeEv>>, outcome |-> Raise(b.val)]
       ELSE [trace |-> calling \o <<InvokeEv>>, outcome |-> b]

\* one invocation of the decorated callable, by variant
RunWrapper(w, attr, b) ==
    CASE w.variant = "log_funcall" ->
            log_funcall_wrapper(w.logger, w.default, w.skip, w.verbose, b)
      [] w.variant = "AdvancedLogger.log_funcall" ->
            AdvancedLogger_log_funcall_wrapper(w.logger, w.default, w.skip, w.verbose, b)
      [] w.variant = "log_method_call" ->
            log_method_call_wrapper(attr, w.default, w.skip, w.verbose, b)
      [] w.variant = "MethodLogger" ->
            MethodLogger_wrapped(w.logger, attr, w.default, w.skip, w.verbose, b)

\* @log_funcall(logger, default, skip, verbose): the logger is bound at decoration
Decorate_log_funcall(logger, default, skip, verbose) ==
    /\ wrapper' = [variant |-> "log_funcall", logger |-> logger, default |-> default,
                   skip |-> skip, verbose |-> verbose]
    /\ call' = NoCall
    /\ UNCHANGED loggerVars

\* @self.log_funcall(default, skip, verbose): the logger is the AdvancedLogger itself
Decorate_AdvancedLogger_log_funcall(default, skip, verbose) ==
    /\ wrapper' = [variant |-> "AdvancedLogger.log_funcall", logger |-> ExplicitLogger,
                   default |-> default, skip |-> skip, verbose |-> verbose]
    /\ call' = NoCall
    /\ UNCHANGED loggerVars

\* @log_method_call(default, skip, verbose, loggerVarName): no logger at decoration
Decorate_log_method_call(default, skip, verbose) ==
    /\ wrapper' = [variant |-> "log_method_call", logger |-> None, default |-> default,
                   skip |-> skip, verbose |-> verbose]
    /\ call' = NoCall
    /\ UNCHANGED loggerVars

\* MethodLogger.__init__ and __call__: logger is optional
Decorate_MethodLogger(logger, default, skip, verbose) ==
    /\ wrapper' = [variant |-> "MethodLogger", logger |-> logger, default |-> default,
                   skip |-> skip, verbose |-> verbose]
    /\ call' = NoCall
    /\ UNCHANGED loggerVars

\* one call of the decorated callable on a receiver holding attr, the wrapped
\* callable behaving as b
Call(attr, b) ==
    /\ wrapper.variant # "none"
    /\ LET r == RunWrapper(wrapper, attr, b)
       IN call' = [attr |-> attr, behaviour |-> b,
                   trace |-> r.trace, outcome |-> r.outcome]
    /\ UNCHANGED wrapper
    /\ UNCHANGED loggerVars

\* the logger the wrappers log to is a default AdvancedLogger; no wrapper yet
InitWrap ==
    /\ log_file = None
    /\ put_func_name = TRUE
    /\ max_width = MAX_FIELD_WIDTH
    /\ custom_str = ""
    /\ time_format = None
    /\ colored_level = TRUE
    /\ colored_log = FALSE
    /\ handlers = InitHandlers(None, TRUE, MAX_FIELD_WIDTH, "", None, TRUE, FALSE)
    /\ stdout = <<>>
    /\ files = [p \in Paths |-> <<>>]
    /\ ops = <<>>
    /\ wrapper = NoWrapper
    /\ call = NoCall
    /\ registry = ImportedRegistry

NextWrap ==
    \/ \E default \in Defaults, skip \in BOOLEAN, verbose \in BOOLEAN :
          Decorate_log_funcall(ExplicitLogger, default, skip, verbose)
    \/ \E default \in Defaults, skip \in BOOLEAN, verbose \in BOOLEAN :
          Decorate_AdvancedLogger_log_funcall(default, skip, verbose)
    \/ \E default \in Defaults, skip \in BOOLEAN, verbose \in BOOLEAN :
          Decorate_log_method_call(default, skip, verbose)
    \/ \E logger \in {None, ExplicitLogger}, default \in Defaults,
          skip \in BOOLEAN, verbose \in BOOLEAN :
          Decorate_MethodLogger(logger, default, skip, verbose)
    \/ \E attr \in Attrs, b \in Behaviours : Call(attr, b)

SpecWrap == InitWrap /\ [][NextWrap]_vars

----------------------------------------------------------------------------
(* Vocabulary of the properties *)

Last(seq) == seq[Len(seq)]
Range(seq) == {seq[i] : i \in DOMAIN seq}

\* every record the logging methods can produce
AllRecords == {LogRecord(levelno, exc_info) : levelno \in Levels, exc_info \in BOOLEAN}

\* the ANSI escape sequences of COLORS
EscapeCodes == {COLORS(LOG_LEVELS(levelno)) : levelno \in Levels} \cup {RESET}
HasEscape(line) == \E i \in DOMAIN line : line[i] \in EscapeCodes

\* the console sinks and the file sinks among the attached handlers
ConsoleSinks == SelectSeq(handlers, LAMBDA h : h.cls = "StreamHandler")
FileSinks == SelectSeq(handlers, LAMBDA h : h.cls = "FileHandler")

\* the handlers of a freshly constructed logger with the default FormatConfig
\* and the current log file
FreshHandlers == InitHandlers(log_file, TRUE, MAX_FIELD_WIDTH, "", None, TRUE, FALSE)

\* the last operation was op; a set_coloring call has been made
LastOp(op) == ops # <<>> /\ Last(ops) = op
Called(op) == op \in Range(ops)

----------------------------------------------------------------------------
\* C1 (as claimed): every line written to a log file is plain text: it holds no
\* colour prefix and no reset suffix, whatever mutators ran before and whatever
\* the colouring options are.
C1_FileLinesPlain ==
    \A p \in Paths : \A i \in DOMAIN files[p] : ~HasEscape(files[p][i])

\* C2 (as claimed): the colouring pair stored on the logger is normalized after
\* construction and after every set_coloring: colored_log is never true while
\* colored_level is false.
C2_StoredPairNormalized == ~(colored_log /\ ~colored_level)

\* C2 (amended): the pair is normalized in every ConsoleFormatter built from the
\* stored pair, at construction and at every configuration change: the
\* formatter's colored_log is never true while its colored_level is false, the
\* console sink's formatter holds colored_log as stored and colored_level as
\* (stored colored_level or stored colored_log); the stored pair is kept as given.
C2_FormatterPairNormalized ==
    /\ \A i \in DOMAIN handlers :
          handlers[i].formatter.cls = "ConsoleFormatter"
          => (handlers[i].formatter.colored_log => handlers[i].formatter.colored_level)
    /\ \A i \in DOMAIN ConsoleSinks :
          /\ ConsoleSinks[i].formatter.cls = "ConsoleFormatter"
          /\ ConsoleSinks[i].formatter.colored_log = colored_log
          /\ ConsoleSinks[i].formatter.colored_level = (colored_level \/ colored_log)

\* C2 witness: set_coloring was just called with the illegal pair (colored_level
\* false, colored_log true); the logger stores it as given.
C2_Witness ==
    /\ LastOp("set_coloring")
    /\ colored_log /\ ~colored_level
    /\ ConsoleSinks[1].formatter.colored_level

\* C3 (as claimed): once set_coloring(colored_level=False, colored_log=w) is the
\* call that set the stored pair, for either w, the console sink has whole-line
\* colouring off and renders every record without any escape sequence.
C3_LevelOffForcesLineOff ==
    (Called("set_coloring") /\ ~colored_level)
    => /\ \A i \in DOMAIN ConsoleSinks :
             /\ ~ConsoleSinks[i].formatter.colored_log
             /\ \A r \in AllRecords : ~HasEscape(Format(ConsoleSinks[i].formatter, r))
       /\ LastOp("log") => ~HasEscape(Last(stdout))

\* C3 (amended): colored_level=False switches colouring off only together with
\* colored_log=False: after set_coloring(False, False), whatever calls came
\* before, the console sink has whole-line colouring off and renders every
\* record of every severity without any escape sequence; after
\* set_coloring(False, True) colored_log wins: whole-line colouring is on.
C3_BothOffNoEscape ==
    /\ (Called("set_coloring") /\ ~colored_level /\ ~colored_log)
       => /\ \A i \in DOMAIN ConsoleSinks :
                /\ ~ConsoleSinks[i].formatter.colored_log
                /\ ~ConsoleSinks[i].formatter.colored_level
                /\ \A r \in AllRecords :
                      ~HasEscape(Format(ConsoleSinks[i].formatter, r))
          /\ LastOp("log") => ~HasEscape(Last(stdout))
    /\ (Called("set_coloring") /\ ~colored_level /\ colored_log)
       => \A i \in DOMAIN ConsoleSinks :
             /\ ConsoleSinks[i].formatter.colored_log
             /\ \A r \in AllRecords :
                   r.levelno # INFO
                   => /\ Format(ConsoleSinks[i].formatter, r)[1] = COLORS(LOG_LEVELS(r.levelno))
                      /\ Last(Format(ConsoleSinks[i].formatter, r)) = RESET

\* C3 witness: two set_coloring calls, the second one (False, False), then a
\* record written to the console.
C3_Witness ==
    /\ ops = <<"set_coloring", "set_coloring", "log">>
    /\ ~colored_level /\ ~colored_log
    /\ Len(stdout) = 1

\* a step that writes a record: ops grows by "log"
LogStep == ops' = Append(ops, "log")

\* C4: there is exactly one console sink and at most one file sink; the file
\* sink exists exactly when a log file is stored and writes to the stored path,
\* which is the path of the most recent set_file (or of construction); a
\* logging call writes one line to the console and one line to the current log
\* file, and leaves every other file as it is.
C4_SinkShape ==
    /\ Len(ConsoleSinks) = 1
    /\ Len(FileSinks) <= 1
    /\ Len(FileSinks) = 1 <=> log_file # None
    /\ \A i \in DOMAIN FileSinks : FileSinks[i].baseFilename = log_file

C4_OneFileSink ==
    /\ []C4_SinkShape
    /\ [][/\ LastOp("set_file")'
             => \E p \in Paths : /\ log_file' = p
                                 /\ FileSinks' = <<FileHandler(p, FileSinks'[1].formatter)>>
          /\ LogStep
             => /\ Len(stdout') = Len(stdout) + 1
                /\ \A p \in Paths :
                      IF p = log_file
                      THEN Len(files'[p]) = Len(files[p]) + 1
                      ELSE files'[p] = files[p]]_vars

\* C4 witness: a record was written to test1.log, then set_file moved the sink
\* to test2.log and a second record was written there only.
C4_Witness ==
    /\ log_file = "test2.log"
    /\ Len(files["test1.log"]) = 1
    /\ Len(files["test2.log"]) = 1
    /\ Len(stdout) = 2
    /\ ops = <<"log", "set_file", "log">>

\* C5 (as claimed): right after reset_defaults the stored FormatConfig equals
\* the defaults, the file sink is still attached, and every sink renders every
\* record exactly as the corresponding sink of a freshly constructed logger
\* with the same log file renders it.
C5_ResetMatchesFresh ==
    LastOp("reset_defaults")
    => /\ put_func_name = TRUE /\ max_width = MAX_FIELD_WIDTH /\ custom_str = ""
       /\ time_format = None /\ colored_level = TRUE /\ colored_log = FALSE
       /\ Len(FileSinks) = 1 <=> log_file # None
       /\ Len(handlers) = Len(FreshHandlers)
       /\ \A i \in DOMAIN handlers :
             /\ Stream(handlers[i]) = Stream(FreshHandlers[i])
             /\ \A r \in AllRecords :
                   Format(handlers[i].formatter, r) = Format(FreshHandlers[i].formatter, r)

----------------------------------------------------------------------------
(* Vocabulary of the wrapper properties *)

\* a call of the decorated callable has been made
Called_wrapper == call.outcome.kind # "none"

\* the logger the current wrapper resolves for a receiver holding attr
Resolved(attr) ==
    CASE wrapper.variant \in {"log_funcall", "AdvancedLogger.log_funcall"} -> wrapper.logger
      [] wrapper.variant = "log_method_call" -> Getattr(attr)
      [] wrapper.variant = "MethodLogger" ->
            IF wrapper.logger # None THEN wrapper.logger ELSE Getattr(attr)
      [] OTHER -> None

\* the records of the last call, in order; those of given levels
Records(trace) == SelectSeq(trace, LAMBDA ev : ev.ev = "log")
RecordsAt(trace, levels) ==
    SelectSeq(trace, LAMBDA ev : ev.ev = "log" /\ ev.level \in levels)
\* how many times the last call invoked the wrapped callable
Invocations(trace) == Len(SelectSeq(trace, LAMBDA ev : ev.ev = "invoke"))

\* the wrapped callable was invoked and raised an Exception / returned normally
RaisedException ==
    /\ Called_wrapper /\ Invocations(call.trace) >= 1
    /\ call.behaviour.kind = "raise" /\ IsException(call.behaviour.val)
ReturnedNormally ==
    /\ Called_wrapper /\ Invocations(call.trace) >= 1
    /\ call.behaviour.kind = "return"

\* C6: with a logger available and skip true, when the wrapped callable raises
\* an exception (an Exception, which is what the wrappers catch) the wrapper
\* does not propagate it, returns the default, and emits exactly one ERROR
\* record carrying the exception followed by exactly one WARNING record.
C6_SkipReturnsDefault ==
    (RaisedException /\ Resolved(call.attr) # None /\ wrapper.skip)
    => /\ call.outcome = Return(wrapper.default)
       /\ RecordsAt(call.trace, {"ERROR", "WARNING"})
          = <<LogEv(Resolved(call.attr), "ERROR", "Error in", call.behaviour.val),
              LogEv(Resolved(call.attr), "WARNING", "Skipping", None)>>
       /\ Invocations(call.trace) = 1
       /\ call.trace[Len(call.trace) - 2] = InvokeEv

\* C6 witness, one per variant is reachable; this one is log_method_call.
C6_Witness ==
    /\ RaisedException /\ wrapper.skip
    /\ wrapper.variant = "log_method_call" /\ call.attr = AttrLogger
    /\ wrapper.default = "default value"
    /\ call.outcome = Return("default value")

\* C7: with a logger available and skip false, when the wrapped callable raises
\* an exception the wrapper emits exactly one ERROR record for it, no WARNING
\* record, and raises the very same exception to the caller.
C7_NoSkipReraisesSame ==
    (RaisedException /\ Resolved(call.attr) # None /\ ~wrapper.skip)
    => /\ call.outcome = Raise(call.behaviour.val)
       /\ RecordsAt(call.trace, {"ERROR", "WARNING"})
          = <<LogEv(Resolved(call.attr), "ERROR", "Error in", call.behaviour.val)>>
       /\ Last(call.trace).level = "ERROR"

\* C7 witness: MethodLogger with an explicit logger re-raises ZeroDivisionError.
C7_Witness ==
    /\ RaisedException /\ ~wrapper.skip
    /\ wrapper.variant = "MethodLogger" /\ wrapper.logger = ExplicitLogger
    /\ call.outcome = Raise(ZeroDivisionError)

\* the shape of a verbose successful call, and of a silent one
VerboseTrace(logger) ==
    <<LogEv(logger, "INFO", "Calling", None), InvokeEv,
      LogEv(logger, "INFO", "Finished", None)>>
NoFinished == \A i \in DOMAIN call.trace : call.trace[i].msg # "Finished"

\* C8 (as claimed): for every variant, when the wrapped callable returns
\* normally the wrapper returns its result and emits no ERROR or WARNING; if
\* verbose it emits exactly two INFO records, "Calling" before the invocation
\* and "Finished" after it; if not verbose it emits no record; when the
\* callable raises no "Finished" record is emitted.
C8_VerboseAlwaysTwoInfo ==
    /\ ReturnedNormally
       => /\ call.outcome = call.behaviour
          /\ RecordsAt(call.trace, {"ERROR", "WARNING"}) = <<>>
          /\ wrapper.verbose
             => /\ Len(call.trace) = 3
                /\ call.trace[1].level = "INFO" /\ call.trace[1].msg = "Calling"
                /\ call.trace[2] = InvokeEv
                /\ call.trace[3].level = "INFO" /\ call.trace[3].msg = "Finished"
          /\ ~wrapper.verbose => call.trace = <<InvokeEv>>
    /\ (Called_wrapper /\ call.behaviour.kind = "raise") => NoFinished

\* C8 (amended): as claimed, except that the two INFO records of a verbose call
\* are emitted when a logger is resolved for the call; a verbose MethodLogger
\* call for which no logger is resolved emits no record at all.
C8_SuccessPath ==
    /\ ReturnedNormally
       => /\ call.outcome = call.behaviour
          /\ RecordsAt(call.trace, {"ERROR", "WARNING"}) = <<>>
          /\ (wrapper.verbose /\ Resolved(call.attr) # None)
             => call.trace = VerboseTrace(Resolved(call.attr))
          /\ (~wrapper.verbose \/ Resolved(call.attr) = None)
             => call.trace = <<InvokeEv>>
    /\ (Called_wrapper /\ call.behaviour.kind = "raise") => NoFinished

\* C8 witness: a verbose call through AdvancedLogger.log_funcall that returned.
C8_Witness ==
    /\ ReturnedNormally /\ wrapper.verbose
    /\ wrapper.variant = "AdvancedLogger.log_funcall"
    /\ Len(Records(call.trace)) = 2
    /\ call.outcome = Return("result")

\* C9 (as claimed): every call of a decorated callable invokes the original
\* callable exactly once, for every variant and every option, whether or not
\* a logger is resolved, on the success and on the failure path.
C9_InvokedExactlyOnce ==
    Called_wrapper => Invocations(call.trace) = 1

\* C10: a MethodLogger built without a logger, on a receiver whose attribute is
\* missing or None, emits no record and raises no error of its own: it returns
\* the callable's result, returns the default for an exception when skip is
\* true and raises the original exception when skip is false.  A MethodLogger
\* built with a logger sends every record to that logger, whatever the
\* receiver holds.
C10_MethodLoggerNoLogger ==
    (Called_wrapper /\ wrapper.variant = "MethodLogger")
    => /\ (wrapper.logger = None /\ Getattr(call.attr) = None)
          => /\ call.trace = <<InvokeEv>>
             /\ call.outcome =
                   IF call.behaviour.kind = "raise" /\ IsException(call.behaviour.val)
                      /\ wrapper.skip
                   THEN Return(wrapper.default)
                   ELSE call.behaviour
       /\ wrapper.logger # None
          => \A i \in DOMAIN call.trace :
                call.trace[i].ev = "log" => call.trace[i].logger = wrapper.logger

\* C10 witness: no logger anywhere, the callable raised, skip is true and the
\* default came back without a record.
C10_Witness ==
    /\ Called_wrapper /\ wrapper.variant = "MethodLogger"
    /\ wrapper.logger = None /\ call.attr = "absent"
    /\ call.behaviour = Raise(ZeroDivisionError) /\ wrapper.skip
    /\ wrapper.default = "default value"
    /\ call.outcome = Return("default value")
    /\ Records(call.trace) = <<>>

----------------------------------------------------------------------------
\* the layout fields of a formatter, and the layout stored on the logger
Layout(f) ==
    [put_func_name |-> f.put_func_name, max_width |-> f.max_width,
     custom_str |-> f.custom_str, time_format |-> f.time_format]
StoredLayout ==
    [put_func_name |-> put_func_name, max_width |-> max_width,
     custom_str |-> custom_str, time_format |-> time_format]
\* formatter f with its layout fields replaced by the stored ones
WithStoredLayout(f) ==
    [f EXCEPT !.put_func_name = put_func_name, !.max_width = max_width,
              !.custom_str = custom_str, !.time_format = time_format]

\* C11: after construction and after every mutator, in any order, the formatter
\* of every attached sink (console and file) holds the logger's current
\* includeCallerName, fieldWidth, customTag and timeFormat, also a file sink
\* attached by set_file after earlier setter calls; the line a logging call
\* writes to each sink is the one rendered with the stored layout values.
C11_SinksHoldStoredLayout ==
    /\ \A i \in DOMAIN handlers : Layout(handlers[i].formatter) = StoredLayout
    /\ LastOp("log")
       => \E r \in AllRecords :
             /\ Last(stdout) = Format(WithStoredLayout(ConsoleSinks[1].formatter), r)
             /\ \A i \in DOMAIN FileSinks :
                   Last(files[log_file])
                   = Format(WithStoredLayout(FileSinks[i].formatter), r)

\* C11 witness: a setter changed the tag and the width, then set_file attached
\* a file sink, whose formatter holds the changed values.
C11_Witness ==
    /\ ops = <<"set_custom_str", "set_max_width", "set_file">>
    /\ custom_str = "TEST1" /\ max_width = 3
    /\ Len(FileSinks) = 1
    /\ FileSinks[1].formatter.custom_str = "TEST1"
    /\ FileSinks[1].formatter.max_width = 3

----------------------------------------------------------------------------
(* The formatters as functions: a logger is constructed with any field     *)
(* width from 0 to MaxWidth and any other argument, and one record from    *)
(* any caller is handled.                                                  *)

\* the largest field width tried
MaxWidth == 10

CallerModules == {<<"m">>, <<"a", "p", "p">>}
CallerFuncs == {<<"f">>, <<"m", "a", "i", "n">>}
FormatRecords ==
    {[levelno |-> levelno, module |-> m, funcName |-> fn,
      msg |-> "message", exc_info |-> exc_info] :
        levelno \in Levels, m \in CallerModules, fn \in CallerFuncs,
        exc_info \in BOOLEAN}

\* AdvancedLogger.__init__ with max_width in 0..MaxWidth
InitFormat ==
    /\ log_file \in {None, "test1.log"}
    /\ put_func_name \in BOOLEAN
    /\ max_width \in 0..MaxWidth
    /\ custom_str \in CustomStrs
    /\ time_format \in TimeFormats
    /\ colored_level \in BOOLEAN
    /\ colored_log \in BOOLEAN
    /\ handlers = InitHandlers(log_file, put_func_name, max_width, custom_str,
                               time_format, colored_level, colored_log)
    /\ stdout = <<>>
    /\ files = [p \in Paths |-> <<>>]
    /\ ops = <<>>
    /\ wrapper = NoWrapper
    /\ call = NoCall
    /\ registry = ImportedRegistry

\* Logger.handle: one record goes to every handler, each writes the line its
\* formatter renders; here once per constructed logger
Handle(record) ==
    /\ ops = <<>>
    /\ stdout' = stdout \o Emitted(handlers, "stdout", record)
    /\ files' = [p \in Paths |-> files[p] \o Emitted(handlers, p, record)]
    /\ ops' = Append(ops, "log")
    /\ UNCHANGED <<log_file, put_func_name, max_width, custom_str, time_format,
                   colored_level, colored_log, handlers, wrapper, call, registry>>

NextFormat == \E record \in FormatRecords : Handle(record)

SpecFormat == InitFormat /\ [][NextFormat]_vars

\* how many escape sequences a line holds
Escapes(line) == Cardinality({i \in DOMAIN line : line[i] \in EscapeCodes})
\* a line wrapped as a whole, once: colour first, reset last, nothing between
WrappedOnce(line, color) ==
    /\ Escapes(line) = 2
    /\ line[1] = color
    /\ Last(line) = RESET
\* a line whose level token alone is wrapped
LevelOnly(line, color, level) ==
    /\ Escapes(line) = 2
    /\ line[1] = "["
    /\ \E k \in DOMAIN line :
          /\ k + 2 \in DOMAIN line
          /\ line[k] = color /\ line[k + 1] = level /\ line[k + 2] = RESET
          /\ line[k - 1] = "|" /\ line[k + 3] = "] "
\* the line without its escape sequences
Plain(line) == SelectSeq(line, LAMBDA tok : tok \notin EscapeCodes)

\* C12: a ConsoleFormatter whose colored_log is true renders a record that is
\* not INFO as the plain line wrapped exactly once in the colour of its level
\* and the reset, with a bare level token and no escape sequence inside (also
\* ERROR and CRITICAL, also with a stack trace); it renders an INFO record with
\* only the level token wrapped and the line itself not wrapped.  The line on
\* standard output has that shape.
C12_WholeLineWrappedOnce ==
    \A i \in DOMAIN ConsoleSinks :
       LET f == ConsoleSinks[i].formatter
       IN (f.cls = "ConsoleFormatter" /\ f.colored_log)
          => /\ \A r \in FormatRecords :
                   LET line == Format(f, r)
                       level == LOG_LEVELS(r.levelno)
                   IN /\ Plain(line) = FileFormat(f, r)
                      /\ r.levelno # INFO
                         => /\ WrappedOnce(line, COLORS(level))
                            /\ SubSeq(line, 2, Len(line) - 1) = FileFormat(f, r)
                      /\ r.levelno = INFO
                         => LevelOnly(line, COLORS("INF"), "INF")
             /\ \A j \in DOMAIN stdout :
                   IF "INF" \in Range(stdout[j])
                   THEN LevelOnly(stdout[j], COLORS("INF"), "INF")
                   ELSE \E levelno \in Levels \ {INFO} :
                           /\ WrappedOnce(stdout[j], COLORS(LOG_LEVELS(levelno)))
                           /\ LOG_LEVELS(levelno) \in Range(stdout[j])

\* C12 witness: an ERROR record with a stack trace was written to the console
\* by a formatter that colours the whole line.
C12_Witness ==
    /\ ConsoleSinks[1].formatter.colored_log
    /\ Len(stdout) = 1
    /\ stdout[1][1] = COLORS("ERR")
    /\ "ERR" \in Range(stdout[1])
    /\ "traceback" \in Range(stdout[1])
    /\ Last(stdout[1]) = RESET

\* "|module.function", the source text of the caller field
CallerSource(r) == <<"|">> \o r.module \o <<".">> \o r.funcName
\* what is written between the timestamp and the level of a plain line
FieldLen(f) == IF f.put_func_name THEN f.max_width ELSE 0

\* C13: in both formatter variants, with includeCallerName true and any
\* fieldWidth >= 0, the caller field has exactly fieldWidth characters for every
\* module and function name, each character being the one of "|module.function"
\* at that place, or a space past its end (so truncation cuts the end, padding
\* comes only when the source is shorter, and the field is empty for width 0);
\* with includeCallerName false the field is empty.  The line written to a
\* sink holds that field right after the timestamp.
C13_CallerFieldWidth ==
    \A i \in DOMAIN handlers :
       LET f == handlers[i].formatter
       IN /\ \A r \in FormatRecords :
                LET field == ModuleFunction(f, r)
                    src == CallerSource(r)
                IN /\ Len(field) = FieldLen(f)
                   /\ f.put_func_name
                      => \A k \in 1..f.max_width :
                            field[k] = IF k <= Len(src) THEN src[k] ELSE " "
                   /\ Len(Plain(Format(f, r)))
                      = 2 + FieldLen(f) + Len(CustomField(f)) + 4 + Len(TraceField(r))
                   /\ SubSeq(Plain(Format(f, r)), 3, 2 + FieldLen(f)) = field
          /\ LET out == IF handlers[i].cls = "FileHandler"
                        THEN files[handlers[i].baseFilename]
                        ELSE stdout
             IN \A j \in DOMAIN out :
                   \E r \in FormatRecords :
                      /\ out[j] = Format(f, r)
                      /\ SubSeq(Plain(out[j]), 3, 2 + FieldLen(f)) = ModuleFunction(f, r)
                      /\ Plain(out[j])[3 + FieldLen(f)] = "|"

\* C13 witness: width 5, caller app.main: the file line holds "|app." and the
\* console line too.
C13_Witness ==
    /\ put_func_name /\ max_width = 5
    /\ Len(files["test1.log"]) = 1
    /\ SubSeq(files["test1.log"][1], 3, 8) = <<"|", "a", "p", "p", ".", "|">>
    /\ SubSeq(Plain(stdout[1]), 3, 8) = <<"|", "a", "p", "p", ".", "|">>

----------------------------------------------------------------------------
(* get_logger.  max_width and time_format are passed as their defaults. *)

\* the number of get_logger and logging calls after the import
MaxGetOps == 3

\* get_logger(name, log_file, put_func_name, max_width, custom_str,
\*            time_format, colored_level, colored_log)
get_logger(name, lf, pfn, mw, cs, tf, clevel, clog) ==
    /\ Len(ops) < MaxGetOps
    /\ registry' = [registry EXCEPT
                      ![name] = GetLoggerHandlers(registry[name], lf, pfn, mw, cs, tf,
                                                  clevel, clog)]
    /\ ops' = Append(ops, "get_logger")
    /\ UNCHANGED <<log_file, put_func_name, max_width, custom_str, time_format,
                   colored_level, colored_log, handlers, stdout, files, wrapper, call>>

\* debug/info/warning/error/critical on a logger obtained from get_logger
LogNamed(name, levelno, exc_info) ==
    /\ Len(ops) < MaxGetOps
    /\ registry[name] # <<>>
    /\ LET record == LogRecord(levelno, exc_info)
       IN /\ stdout' = stdout \o Emitted(registry[name], "stdout", record)
          /\ files' = [p \in Paths |-> files[p] \o Emitted(registry[name], p, record)]
    /\ ops' = Append(ops, "log")
    /\ UNCHANGED <<log_file, put_func_name, max_width, custom_str, time_format,
                   colored_level, colored_log, handlers, wrapper, call, registry>>

NextGet ==
    \/ \E name \in Names, lf \in Paths \cup {None}, pfn \in BOOLEAN,
          cs \in CustomStrs, clevel \in BOOLEAN, clog \in BOOLEAN :
          get_logger(name, lf, pfn, MAX_FIELD_WIDTH, cs, None, clevel, clog)
    \/ \E name \in Names, levelno \in Levels :
          LogNamed(name, levelno, FALSE)

\* the module has been imported; no AdvancedLogger is involved
SpecGet == InitWrap /\ [][NextGet]_vars

\* the console and the file handlers of a handler list
ConsoleOf(hs) == SelectSeq(hs, LAMBDA h : h.cls = "StreamHandler")
FileOf(hs) == SelectSeq(hs, LAMBDA h : h.cls = "FileHandler")

\* C14: after any number of get_logger calls with the same name, with any mix
\* of log_file and format arguments, the named logger has at most one console
\* handler and at most one file handler, and a logging call writes one line to
\* the console and at most one line to any file; a handler once attached stays
\* as it is, with its formatter and its file, whatever the later calls pass.
C14_Shape ==
    \A n \in Names :
       /\ Len(ConsoleOf(registry[n])) <= 1
       /\ Len(FileOf(registry[n])) <= 1
       /\ registry[n] # <<>> => Len(ConsoleOf(registry[n])) = 1

C14_HandlersKept ==
    /\ []C14_Shape
    /\ [][/\ \A n \in Names :
                /\ Len(registry'[n]) >= Len(registry[n])
                /\ \A i \in DOMAIN registry[n] : registry'[n][i] = registry[n][i]
          /\ LogStep
             => /\ Len(stdout') = Len(stdout) + 1
                /\ \A p \in Paths : Len(files'[p]) <= Len(files[p]) + 1]_vars

\* C14 witness: "app" got its console handler from one call and its file
\* handler from a later call with other format arguments; a third call has
\* been made and changed neither.
C14_Witness ==
    /\ ops = <<"get_logger", "get_logger", "get_logger">>
    /\ Len(registry["app"]) = 2
    /\ registry["app"][1].cls = "StreamHandler"
    /\ registry["app"][1].formatter.custom_str = ""
    /\ registry["app"][2].cls = "FileHandler"
    /\ registry["app"][2].baseFilename = "test1.log"
    /\ registry["app"][2].formatter.custom_str = "TEST1"
    /\ registry[ModuleName] = ImportedRegistry[ModuleName]

====
